---------------------------- MODULE Spec2Model ----------------------------
(***************************************************************************)
(* Model of the git workflow bot (src/bots/git-workflow/git_bot.py): the   *)
(* version_bump, commit and merge handlers, each a chain of calls to the   *)
(* command executor run_git_command.                                       *)
(*                                                                         *)
(* Text is modelled character by character: a Python str is a sequence of  *)
(* one-character strings, so that startswith, split, re.match, re.search,  *)
(* the `in` operator and the f-strings are computed as the code computes   *)
(* them.                                                                   *)
(***************************************************************************)
EXTENDS Integers, Sequences, FiniteSets, TLC

VARIABLES
    command,    \* command[p]: the command of request p (process_command's argument)
    data,       \* data[p]: the request's JSON body, after the handler's data.get defaults
    repo,       \* the repository the requests address: is it one, its tags, its recent log
    pc,         \* pc[p]: the handler's position, the executor call it is about to make
    loc,        \* loc[p]: the handler's local variables
    issued,     \* issued[p]: the executor calls made so far, with their results
    resp,       \* resp[p]: the structured response, NoResp until the handler returns
    bumpFrom,   \* composition of bumps: the version the chain started from
    bumpNow,    \* composition of bumps: the version after the bumps applied so far
    bumpCount   \* composition of bumps: how many Patch bumps were applied

vars == <<command, data, repo, pc, loc, issued, resp, bumpFrom, bumpNow, bumpCount>>

-----------------------------------------------------------------------------
(* Bounds of the model.                                                    *)

MaxTags == 2        \* tags in the repository at the start
MaxWindow == 2      \* commit subjects in the log window
MaxPart == 2        \* largest component of a version a bump chain starts from
MaxChain == 3       \* bumps applied in a chain
MaxLines == 2       \* lines of the porcelain status of a working tree

-----------------------------------------------------------------------------
(* Characters and strings.                                                 *)

Empty == <<>>
NL == "\n"

Digits == {"0", "1", "2", "3", "4", "5", "6", "7", "8", "9"}

Letters ==
    {"a", "b", "c", "d", "e", "f", "g", "h", "i", "j", "k", "l", "m",
     "n", "o", "p", "q", "r", "s", "t", "u", "v", "w", "x", "y", "z",
     "A", "B", "C", "D", "E", "F", "G", "H", "I", "J", "K", "L", "M",
     "N", "O", "P", "Q", "R", "S", "T", "U", "V", "W", "X", "Y", "Z"}

\* the class \w of Python's re
IsWord(c) == c \in Letters \cup Digits \cup {"_"}

\* the class \d of Python's re
IsDigit(c) == c \in Digits

DigitVal(c) ==
    CASE c = "0" -> 0 [] c = "1" -> 1 [] c = "2" -> 2 [] c = "3" -> 3
      [] c = "4" -> 4 [] c = "5" -> 5 [] c = "6" -> 6 [] c = "7" -> 7
      [] c = "8" -> 8 [] c = "9" -> 9

DigitChar(d) ==
    CASE d = 0 -> "0" [] d = 1 -> "1" [] d = 2 -> "2" [] d = 3 -> "3"
      [] d = 4 -> "4" [] d = 5 -> "5" [] d = 6 -> "6" [] d = 7 -> "7"
      [] d = 8 -> "8" [] d = 9 -> "9"

\* the code point of the characters that occur in tag names
Ord(c) ==
    CASE c = "-" -> 45 [] c = "." -> 46
      [] c \in Digits -> 48 + DigitVal(c)
      [] c = "c" -> 99 [] c = "r" -> 114 [] c = "v" -> 118 [] c = "x" -> 120

\* s.startswith(p)
StartsWith(s, p) == Len(s) >= Len(p) /\ SubSeq(s, 1, Len(p)) = p

\* p in s
Contains(s, p) ==
    \E i \in 1..(Len(s) - Len(p) + 1) : SubSeq(s, i, i + Len(p) - 1) = p

\* sep.join(parts)
RECURSIVE Join(_, _)
Join(parts, sep) ==
    IF parts = <<>> THEN <<>>
    ELSE IF Len(parts) = 1 THEN parts[1]
    ELSE parts[1] \o <<sep>> \o Join(Tail(parts), sep)

\* s.split(sep): "".split(sep) is [""]
RECURSIVE Split(_, _)
Split(s, sep) ==
    IF \A i \in 1..Len(s) : s[i] # sep THEN <<s>>
    ELSE LET k == CHOOSE i \in 1..Len(s) :
                      s[i] = sep /\ \A j \in 1..(i - 1) : s[j] # sep
         IN  <<SubSeq(s, 1, k - 1)>> \o Split(SubSeq(s, k + 1, Len(s)), sep)

\* int(s) of a string of digits
RECURSIVE ParseInt(_)
ParseInt(s) ==
    IF s = <<>> THEN 0
    ELSE 10 * ParseInt(SubSeq(s, 1, Len(s) - 1)) + DigitVal(s[Len(s)])

\* str(n), n >= 0
RECURSIVE RenderInt(_)
RenderInt(n) ==
    IF n < 10 THEN <<DigitChar(n)>>
    ELSE RenderInt(n \div 10) \o <<DigitChar(n % 10)>>

\* the length of the longest run of digits of s that starts at position i
RECURSIVE DigitRun(_, _)
DigitRun(s, i) ==
    IF i <= Len(s) /\ IsDigit(s[i]) THEN 1 + DigitRun(s, i + 1) ELSE 0

-----------------------------------------------------------------------------
(* Version tags.                                                           *)

\* re.match(r'v(\d+)\.(\d+)\.(\d+)', s): the three groups as <<first, last>>
\* positions, or <<>> when there is no match. re.match anchors the pattern
\* at the start of s only; \d+ is greedy and is followed by a non-digit.
VersionMatch(s) ==
    LET n1 == DigitRun(s, 2)
        d1 == 2 + n1
        n2 == DigitRun(s, d1 + 1)
        d2 == d1 + 1 + n2
        n3 == DigitRun(s, d2 + 1)
    IN  IF /\ Len(s) >= 1 /\ s[1] = "v"
           /\ n1 >= 1 /\ d1 <= Len(s) /\ s[d1] = "."
           /\ n2 >= 1 /\ d2 <= Len(s) /\ s[d2] = "."
           /\ n3 >= 1
        THEN <<<<2, d1 - 1>>, <<d1 + 1, d2 - 1>>, <<d2 + 1, d2 + n3>>>>
        ELSE <<>>

\* major, minor, patch = map(int, version_match.groups())
VersionGroups(s) ==
    LET m == VersionMatch(s)
    IN  [major |-> ParseInt(SubSeq(s, m[1][1], m[1][2])),
         minor |-> ParseInt(SubSeq(s, m[2][1], m[2][2])),
         patch |-> ParseInt(SubSeq(s, m[3][1], m[3][2]))]

\* f"v{major}.{minor}.{patch}"
FormatVersion(v) ==
    <<"v">> \o RenderInt(v.major) \o <<".">> \o RenderInt(v.minor)
            \o <<".">> \o RenderInt(v.patch)

\* the calculation of the new version, with a minor bump that keeps the patch
\* and with a patch bump that repeats the minor branch
BumpMinorKeepsPatch(v, bump_type) ==
    IF bump_type = "major"
    THEN [major |-> v.major + 1, minor |-> 0, patch |-> 0]
    ELSE IF bump_type = "minor"
    THEN [major |-> v.major, minor |-> v.minor + 1, patch |-> v.patch]
    ELSE IF bump_type = "patch"
    THEN [major |-> v.major, minor |-> v.minor, patch |-> v.patch + 1]
    ELSE v

BumpPatchSlip(v, bump_type) ==
    IF bump_type = "major"
    THEN [major |-> v.major + 1, minor |-> 0, patch |-> 0]
    ELSE IF bump_type = "minor"
    THEN [major |-> v.major, minor |-> v.minor + 1, patch |-> 0]
    ELSE IF bump_type = "patch"
    THEN [major |-> v.major, minor |-> v.minor + 1, patch |-> 0]
    ELSE v

\* lines 326-335
Bump(v, bump_type) ==
    IF bump_type = "major"
    THEN [major |-> v.major + 1, minor |-> 0, patch |-> 0]
    ELSE IF bump_type = "minor"
    THEN [major |-> v.major, minor |-> v.minor + 1, patch |-> 0]
    ELSE IF bump_type = "patch"
    THEN [major |-> v.major, minor |-> v.minor, patch |-> v.patch + 1]
    ELSE v

(* The order of `git tag -l --sort=-version:refname`: git's versioncmp,   *)
(* which is glibc's strverscmp. The strings are compared up to their first *)
(* difference, while a state tells whether the common prefix ends outside  *)
(* a number (N), in an integer (I), in a number with leading zeros (F) or  *)
(* in leading zeros only (Z); the state and the class of the two differing *)
(* characters (other, digit, zero; the end of a string is other) select    *)
(* the result.                                                             *)
CharAt(s, i) == IF i <= Len(s) THEN s[i] ELSE "END"

CharClass(c) == IF c = "0" THEN "0" ELSE IF c \in Digits THEN "d" ELSE "x"

CodeAt(s, i) == IF i <= Len(s) THEN Ord(s[i]) ELSE 0

VerNextState(state, cls) ==
    CASE state = "N" -> (IF cls = "0" THEN "Z" ELSE IF cls = "d" THEN "I" ELSE "N")
      [] state = "I" -> (IF cls = "x" THEN "N" ELSE "I")
      [] state = "F" -> (IF cls = "x" THEN "N" ELSE "F")
      [] state = "Z" -> (IF cls = "0" THEN "Z" ELSE IF cls = "d" THEN "F" ELSE "N")

RECURSIVE VerState(_, _)
VerState(s, k) ==
    IF k = 0 THEN "N" ELSE VerNextState(VerState(s, k - 1), CharClass(s[k]))

VersionCmp(a, b) ==
    IF a = b THEN 0
    ELSE LET k == CHOOSE i \in 1..(Len(a) + 1) :
                      /\ CharAt(a, i) # CharAt(b, i)
                      /\ \A j \in 1..(i - 1) : a[j] = b[j]
             st == VerState(a, k - 1)
             ca == CharClass(CharAt(a, k))
             cb == CharClass(CharAt(b, k))
             diff == CodeAt(a, k) - CodeAt(b, k)
             ra == DigitRun(a, k)
             rb == DigitRun(b, k)
             len == IF ra > rb THEN 1 ELSE IF ra < rb THEN -1 ELSE diff
         IN  CASE st = "N" -> (IF ca = "d" /\ cb = "d" THEN len ELSE diff)
               [] st = "I" -> (IF ca = "x" /\ cb = "x" THEN diff
                               ELSE IF ca = "x" THEN -1
                               ELSE IF cb = "x" THEN 1
                               ELSE len)
               [] st = "F" -> diff
               [] st = "Z" -> (IF ca = "x" /\ cb = "x" THEN diff
                               ELSE IF ca = "x" THEN 1
                               ELSE IF cb = "x" THEN -1
                               ELSE diff)

\* the tags of T as `git tag -l --sort=-version:refname` lists them
RECURSIVE SortVersionDesc(_)
SortVersionDesc(T) ==
    IF T = {} THEN <<>>
    ELSE LET top == CHOOSE t \in T : \A u \in T \ {t} : VersionCmp(t, u) > 0
         IN  <<top>> \o SortVersionDesc(T \ {top})

-----------------------------------------------------------------------------
(* The command executor.                                                   *)

Procs == {1, 2}

\* what subprocess.run can do: exit 0, exit non-zero, raise
ExecOutcomes == {"ok", "nonzero", "raise"}

StderrText == <<"f","a","t","a","l">>
ExceptionText == <<"o","s","e","r","r">>

IsSpace(c) == c \in {" ", NL}

\* s.strip()
RECURSIVE Strip(_)
Strip(s) ==
    IF s = <<>> THEN s
    ELSE IF IsSpace(s[1]) THEN Strip(Tail(s))
    ELSE IF IsSpace(s[Len(s)]) THEN Strip(SubSeq(s, 1, Len(s) - 1))
    ELSE s

\* run_git_command: the result of a call whose process ends as `outcome`,
\* having written `stdout` when it exits 0
RunGitCommand(outcome, stdout) ==
    CASE outcome = "ok" ->
           [success |-> TRUE, output |-> Strip(stdout), error |-> Empty]
      [] outcome = "nonzero" ->
           [success |-> FALSE, output |-> Empty, error |-> Strip(StderrText)]
      [] outcome = "raise" ->
           [success |-> FALSE, output |-> Empty, error |-> ExceptionText]

\* one executor call: the command and its result
Call(cmd, result) == [cmd |-> cmd, result |-> result]

NoResp == [none |-> TRUE]

\* an f-string of an error message: its template and the values put in it
Msg(template, values) == [template |-> template, values |-> values]

-----------------------------------------------------------------------------
(* The requests and the repository they address.                           *)

Tag_v1_2_3 == <<"v","1",".","2",".","3">>
Tag_v1_9_0 == <<"v","1",".","9",".","0">>
Tag_v1_10_0 == <<"v","1",".","1","0",".","0">>
Tag_v2_0_0_rc == <<"v","2",".","0",".","0","-","r","c">>
Tag_vx == <<"v","x">>
Tag_x1 == <<"x","1">>

TagNames == {Tag_v1_2_3, Tag_v1_9_0, Tag_v1_10_0, Tag_v2_0_0_rc, Tag_vx, Tag_x1}

TagSets == {T \in SUBSET TagNames : Cardinality(T) <= MaxTags}

Subj_fix == <<"f","i","x",":"," ","a">>
Subj_feat == <<"f","e","a","t",":"," ","x">>
Subj_feat_scope == <<"f","e","a","t","(","a",")",":"," ","x">>
Subj_feat_bang == <<"f","e","a","t","!",":"," ","x">>
Subj_feat_scope_bang == <<"f","e","a","t","(","a",")","!",":"," ","x">>
Subj_defeat == <<"f","i","x",":"," ","d","e","f","e","a","t","(","x",")">>
Subj_breaking ==
    <<"d","o","c","s",":"," ","B","R","E","A","K","I","N","G"," ",
      "C","H","A","N","G","E"," ","x">>

Subjects ==
    {Subj_fix, Subj_feat, Subj_feat_scope, Subj_feat_bang,
     Subj_feat_scope_bang, Subj_defeat, Subj_breaking}

\* the subjects of the commits of the last week, newest first
Windows == UNION {[1..n -> Subjects] : n \in 0..MaxWindow}

BumpTypes == {"major", "minor", "patch", "auto", "bogus"}

\* the keys of conventional_commit_types
Type_feat == <<"f","e","a","t">>
Type_fix == <<"f","i","x">>
Type_docs == <<"d","o","c","s">>
Type_style == <<"s","t","y","l","e">>
Type_refactor == <<"r","e","f","a","c","t","o","r">>
Type_test == <<"t","e","s","t">>
Type_chore == <<"c","h","o","r","e">>

ConventionalCommitTypes ==
    {Type_feat, Type_fix, Type_docs, Type_style, Type_refactor, Type_test,
     Type_chore}

Type_wip == <<"w","i","p">>
Scope_auth == <<"a","u","t","h">>
Desc_x == <<"x">>
Desc_token == <<"h","a","n","d","l","e"," ","n","u","l","l"," ","t","o","k","e","n">>
Body_b == <<"b">>

CommitRequests ==
    [type : ConventionalCommitTypes \cup {Type_wip},
     scope : {Empty, Scope_auth},
     description : {Empty, Desc_x, Desc_token},
     body : {Empty, Body_b},
     breaking : BOOLEAN]

Branch_dev == <<"d","e","v">>
Branch_main == <<"m","a","i","n">>
Branch_rel == <<"r","e","l">>
Branch_bad == <<"d",";","v">>
\* the branch that is checked out when the request comes
Branch_work == <<"w","o","r","k">>

Strategies == {"merge", "squash", "rebase", "bogus"}

MergeRequests ==
    [source_branch : {Empty, Branch_dev, Branch_bad},
     target_branch : {Branch_main, Branch_rel, Branch_bad},
     strategy : Strategies]

Branch_nl == <<"d","e","v",NL>>

CreateBranchRequests ==
    [branch_name : {Empty, Branch_dev, Branch_bad, Branch_nl},
     switch : BOOLEAN]

Tag_1_2_3 == <<"1",".","2",".","3">>
Message_x == <<"x">>

CreateTagRequests ==
    [tag_name : {Empty, Tag_v1_2_3, Tag_1_2_3, Tag_vx},
     message : {Empty, Message_x}]

Path_dot == <<".">>

\* requests that carry only the path
PathRequests == [path : {Path_dot}]

\* lines of `git status --porcelain`: unstaged modification, staged addition,
\* unstaged deletion, untracked file, staged modification
Line_modified == <<" ","M"," ","a">>
Line_added == <<"A"," "," ","b">>
Line_deleted == <<" ","D"," ","c">>
Line_untracked == <<"?","?"," ","d">>
Line_staged == <<"M"," "," ","e">>
StatusLines == {Line_modified, Line_added, Line_deleted, Line_untracked, Line_staged}

\* the status of a working tree: one line per path
WorkingTrees ==
    {t \in UNION {[1..n -> StatusLines] : n \in 0..MaxLines} :
        \A i, j \in 1..Len(t) : i # j => t[i] # t[j]}

\* a command that process_command does not know, and no command at all
UnknownCommands == {"deploy", ""}

Requests(c) ==
    CASE c = "version_bump" -> {[type |-> t] : t \in BumpTypes}
      [] c = "commit" -> CommitRequests
      [] c = "merge" -> MergeRequests
      [] c = "create_branch" -> CreateBranchRequests
      [] c = "tag" -> CreateTagRequests
      [] c = "init" -> PathRequests
      [] c = "status" -> PathRequests
      [] c \in UnknownCommands -> PathRequests
      [] OTHER -> {[unused |-> TRUE]}

\* the repositories that make a difference to the request
Repos(c, d) ==
    [isRepo : BOOLEAN,
     tags : IF c = "version_bump" THEN TagSets
            ELSE IF c = "tag" THEN {{}, {Tag_v1_2_3}}
            ELSE IF c = "status" THEN {{Tag_v1_2_3}}
            ELSE {{}},
     log : IF c = "version_bump" /\ d.type = "auto" THEN Windows
           ELSE IF c = "status" THEN {<<>>, <<Subj_fix>>}
           ELSE {<<>>},
     porcelain : IF c = "status" THEN WorkingTrees ELSE {<<>>},
     head : IF c = "status" THEN {Branch_main} ELSE {Branch_work}]

NoResult == [success |-> FALSE, output |-> Empty, error |-> Empty]

LocInit ==
    [current_version |-> Empty, bump_type |-> "", new_version |-> Empty,
     commit_msg |-> Empty, merge_result |-> NoResult,
     results |-> <<>>, status_info |-> [k \in {} |-> TRUE]]

FirstPc(c) ==
    CASE c = "version_bump" -> "vb_tags"
      [] c = "commit" -> "c_add"
      [] c = "merge" -> "m_checkout"
      [] c = "create_branch" -> "b_create"
      [] c = "tag" -> "t_create"
      [] c = "init" -> "i_init"
      [] c = "status" -> "s_branch"
      [] c \in UnknownCommands -> "unknown"
      [] OTHER -> "done"

ZeroVersion == [major |-> 0, minor |-> 0, patch |-> 0]

-----------------------------------------------------------------------------
(* version_bump: auto_version_bump.                                        *)

V0 == <<"v","0",".","0",".","0">>
BreakingChange == <<"B","R","E","A","K","I","N","G"," ","C","H","A","N","G","E">>
Feat == <<"f","e","a","t">>

\* the abbreviated hash of the i-th line of `git log --oneline`
AbbrevHash(i) == <<"a","1","f">> \o RenderInt(i)

\* the output of `git log --oneline --since='1 week ago'`
LogOutput(window) ==
    Join([i \in 1..Len(window) |-> AbbrevHash(i) \o <<" ">> \o window[i]], NL)

\* the output of `git tag -l --sort=-version:refname`
TagListOutput(T) == Join(SortVersionDesc(T), NL)

\* current_version: the first listed tag that starts with 'v'; first with
\* the last one
CurrentVersionLast(tags_result) ==
    IF ~tags_result.success THEN V0
    ELSE LET tags == SelectSeq(Split(tags_result.output, NL),
                               LAMBDA tag : StartsWith(tag, <<"v">>))
         IN  IF tags # <<>> THEN tags[Len(tags)] ELSE V0

CurrentVersion(tags_result) ==
    IF ~tags_result.success THEN V0
    ELSE LET tags == SelectSeq(Split(tags_result.output, NL),
                               LAMBDA tag : StartsWith(tag, <<"v">>))
         IN  IF tags # <<>> THEN tags[1] ELSE V0

\* re.search(r'\w+!:', s)
SearchTypeBang(s) ==
    \E i \in 1..(Len(s) - 2) : IsWord(s[i]) /\ s[i + 1] = "!" /\ s[i + 2] = ":"

\* re.search(r'feat[\(\:]', s)
SearchFeat(s) ==
    \E i \in 1..(Len(s) - 4) :
        SubSeq(s, i, i + 3) = Feat /\ s[i + 4] \in {"(", ":"}

\* the bump type detected from the newest commit alone
InferBumpNewestOnly(commits_result) ==
    IF commits_result.success
    THEN LET commits == Split(commits_result.output, NL)[1]
         IN  IF Contains(commits, BreakingChange) \/ SearchTypeBang(commits)
             THEN "major"
             ELSE IF SearchFeat(commits) THEN "minor" ELSE "patch"
    ELSE "patch"

\* lines 313-324: the bump type detected from the recent commits
InferBump(commits_result) ==
    IF commits_result.success
    THEN LET commits == commits_result.output
         IN  IF Contains(commits, BreakingChange) \/ SearchTypeBang(commits)
             THEN "major"
             ELSE IF SearchFeat(commits) THEN "minor" ELSE "patch"
    ELSE "patch"

\* new_version
NewVersion(current_version, bump_type) ==
    FormatVersion(Bump(VersionGroups(current_version), bump_type))

\* line 340; first with the tag named by the version without its "v"
TagCommandBare(new_version) == [verb |-> "tag -a", name |-> Tail(new_version)]

TagCommand(new_version) == [verb |-> "tag -a", name |-> new_version]

Finish(p, response) ==
    /\ resp' = [resp EXCEPT ![p] = response]
    /\ pc' = [pc EXCEPT ![p] = "done"]

ChainVars == <<bumpFrom, bumpNow, bumpCount>>

\* lines 291-310: the repository check, the tag listing, the current version
VbListTags(p) ==
    /\ pc[p] = "vb_tags"
    /\ UNCHANGED <<command, data, repo, ChainVars>>
    /\ IF ~repo.isRepo
       THEN /\ Finish(p, [error |-> Msg("Not a git repository", <<>>)])
            /\ UNCHANGED <<loc, issued>>
       ELSE \E o \in ExecOutcomes :
              LET tags_result == RunGitCommand(o, TagListOutput(repo.tags))
                  current_version == CurrentVersion(tags_result)
                  bump_type == data[p].type
              IN  /\ issued' = [issued EXCEPT ![p] =
                         Append(@, Call([verb |-> "tag -l"], tags_result))]
                  /\ IF VersionMatch(current_version) = <<>>
                     THEN /\ Finish(p, [error |->
                                 Msg("Invalid current version format: {}",
                                     <<current_version>>)])
                          /\ UNCHANGED loc
                     ELSE /\ resp' = resp
                          /\ IF bump_type = "auto"
                             THEN /\ pc' = [pc EXCEPT ![p] = "vb_log"]
                                  /\ loc' = [loc EXCEPT ![p] =
                                        [@ EXCEPT !.current_version = current_version,
                                                  !.bump_type = bump_type]]
                             ELSE /\ pc' = [pc EXCEPT ![p] = "vb_tag"]
                                  /\ loc' = [loc EXCEPT ![p] =
                                        [@ EXCEPT !.current_version = current_version,
                                                  !.bump_type = bump_type,
                                                  !.new_version =
                                             NewVersion(current_version, bump_type)]]

\* lines 313-337: the bump type detected from the log, the new version
VbLog(p) ==
    /\ pc[p] = "vb_log"
    /\ UNCHANGED <<command, data, repo, resp, ChainVars>>
    /\ \E o \in ExecOutcomes :
         LET commits_result == RunGitCommand(o, LogOutput(repo.log))
             bump_type == InferBump(commits_result)
         IN  /\ issued' = [issued EXCEPT ![p] =
                    Append(@, Call([verb |-> "log"], commits_result))]
             /\ loc' = [loc EXCEPT ![p] =
                    [@ EXCEPT !.bump_type = bump_type,
                              !.new_version =
                                  NewVersion(loc[p].current_version, bump_type)]]
             /\ pc' = [pc EXCEPT ![p] = "vb_tag"]

\* lines 339-349: the tag of the new version. git refuses a tag that exists.
VbTag(p) ==
    /\ pc[p] = "vb_tag"
    /\ UNCHANGED <<command, data, loc, ChainVars>>
    /\ \E o \in ExecOutcomes :
         LET new_version == loc[p].new_version
             tag_result == RunGitCommand(o, Empty)
         IN  /\ o = "ok" => new_version \notin repo.tags
             /\ issued' = [issued EXCEPT ![p] =
                    Append(@, Call(TagCommand(new_version), tag_result))]
             /\ IF ~tag_result.success
                THEN /\ Finish(p, [error |->
                            Msg("Failed to create version tag: {}",
                                <<tag_result.error>>)])
                     /\ repo' = repo
                ELSE /\ Finish(p, [status |-> "version_bumped",
                                   previous_version |-> loc[p].current_version,
                                   new_version |-> new_version,
                                   bump_type |-> loc[p].bump_type])
                     /\ repo' = [repo EXCEPT !.tags = @ \cup {new_version}]

-----------------------------------------------------------------------------
(* commit: commit_changes.                                                 *)

\* the output of the commands whose output the handlers only pass on
PlainOutput == <<"o","k">>
HeadHash == <<"a","b","c","1","2">>
Unknown == <<"u","n","k","n","o","w","n">>

\* lines 132-141: the conventional commit message; first without the "!"
BuildCommitMessageNoBang(commit_type, scope, description, body, breaking) ==
    LET scope_part == IF scope # Empty THEN <<"(">> \o scope \o <<")">> ELSE Empty
        subject == commit_type \o scope_part \o <<":", " ">> \o description
        with_body == IF body # Empty THEN subject \o <<NL, NL>> \o body ELSE subject
    IN  IF breaking
        THEN with_body \o <<NL, NL>> \o BreakingChange \o <<":", " ">> \o description
        ELSE with_body

BuildCommitMessage(commit_type, scope, description, body, breaking) ==
    LET scope_part == IF scope # Empty THEN <<"(">> \o scope \o <<")">> ELSE Empty
        breaking_part == IF breaking THEN <<"!">> ELSE Empty
        subject == commit_type \o scope_part \o breaking_part
                       \o <<":", " ">> \o description
        with_body == IF body # Empty THEN subject \o <<NL, NL>> \o body ELSE subject
    IN  IF breaking
        THEN with_body \o <<NL, NL>> \o BreakingChange \o <<":", " ">> \o description
        ELSE with_body

AddCommand == [verb |-> "add", what |-> <<".">>]
CommitCommand(message) == [verb |-> "commit", message |-> message]

FailedToExecuteOutput(cmd, result) ==
    [error |-> Msg("Failed to execute: {}", <<cmd>>), details |-> result.output]

FailedToExecute(cmd, result) ==
    [error |-> Msg("Failed to execute: {}", <<cmd>>), details |-> result.error]

\* lines 123-130: the checks before anything is built or run; NoResp when
\* the request passes
CommitCheckTypeOnly(isRepo, d) ==
    IF ~isRepo THEN [error |-> Msg("Not a git repository", <<>>)]
    ELSE IF d.type \notin ConventionalCommitTypes
    THEN [error |-> Msg("Invalid commit type. Valid types: {}",
                        <<ConventionalCommitTypes>>)]
    ELSE NoResp

CommitCheck(isRepo, d) ==
    IF ~isRepo THEN [error |-> Msg("Not a git repository", <<>>)]
    ELSE IF d.type \notin ConventionalCommitTypes
    THEN [error |-> Msg("Invalid commit type. Valid types: {}",
                        <<ConventionalCommitTypes>>)]
    ELSE IF d.description = Empty
    THEN [error |-> Msg("Commit description required", <<>>)]
    ELSE NoResp

\* lines 116-152, first command: the checks, the message, `git add .`
CommitAdd(p) ==
    /\ pc[p] = "c_add"
    /\ UNCHANGED <<command, data, repo, ChainVars>>
    /\ LET d == data[p]
           rejected == CommitCheck(repo.isRepo, d)
       IN  IF rejected # NoResp
           THEN /\ Finish(p, rejected)
                /\ UNCHANGED <<loc, issued>>
           ELSE \E o \in ExecOutcomes :
                  LET commit_msg == BuildCommitMessage(d.type, d.scope,
                                        d.description, d.body, d.breaking)
                      result == RunGitCommand(o, Empty)
                  IN  /\ loc' = [loc EXCEPT ![p].commit_msg = commit_msg]
                      /\ issued' = [issued EXCEPT ![p] =
                             Append(@, Call(AddCommand, result))]
                      /\ IF ~result.success
                         THEN Finish(p, FailedToExecute(AddCommand, result))
                         ELSE /\ pc' = [pc EXCEPT ![p] = "c_commit"]
                              /\ resp' = resp

\* lines 149-152, second command: `git commit -m '{commit_msg}'`
CommitCommit(p) ==
    /\ pc[p] = "c_commit"
    /\ UNCHANGED <<command, data, repo, loc, ChainVars>>
    /\ \E o \in ExecOutcomes :
         LET cmd == CommitCommand(loc[p].commit_msg)
             result == RunGitCommand(o, PlainOutput)
         IN  /\ issued' = [issued EXCEPT ![p] = Append(@, Call(cmd, result))]
             /\ IF ~result.success
                THEN Finish(p, FailedToExecute(cmd, result))
                ELSE /\ pc' = [pc EXCEPT ![p] = "c_hash"]
                     /\ resp' = resp

\* lines 154-164: the commit hash and the response
CommitHash(p) ==
    /\ pc[p] = "c_hash"
    /\ UNCHANGED <<command, data, repo, loc, ChainVars>>
    /\ \E o \in ExecOutcomes :
         LET hash_result == RunGitCommand(o, HeadHash)
             commit_hash == IF hash_result.success THEN hash_result.output
                            ELSE Unknown
         IN  /\ issued' = [issued EXCEPT ![p] =
                    Append(@, Call([verb |-> "rev-parse"], hash_result))]
             /\ Finish(p, [status |-> "changes_committed",
                           commit_type |-> data[p].type,
                           description |-> data[p].description,
                           commit_hash |-> commit_hash,
                           message |-> loc[p].commit_msg])

-----------------------------------------------------------------------------
(* merge: merge_branch.                                                    *)

CheckoutCommand(branch) == [verb |-> "checkout", branch |-> branch]

\* the command of the strategy, were every strategy run as a plain merge
MergeCommandPlain(strategy, source_branch) ==
    [verb |-> "merge", branch |-> source_branch]

\* lines 185-190: the command of the strategy
MergeCommand(strategy, source_branch) ==
    IF strategy = "squash" THEN [verb |-> "merge --squash", branch |-> source_branch]
    ELSE IF strategy = "rebase" THEN [verb |-> "rebase", branch |-> source_branch]
    ELSE [verb |-> "merge", branch |-> source_branch]

\* f"Merge {source_branch} into {target_branch}"; first with the names swapped
SquashMessageSwapped(source_branch, target_branch) ==
    <<"M","e","r","g","e"," ">> \o target_branch
        \o <<" ","i","n","t","o"," ">> \o source_branch

SquashMessage(source_branch, target_branch) ==
    <<"M","e","r","g","e"," ">> \o source_branch
        \o <<" ","i","n","t","o"," ">> \o target_branch

BranchesMerged(d, merge_result) ==
    [status |-> "branches_merged",
     source_branch |-> d.source_branch,
     target_branch |-> d.target_branch,
     strategy |-> d.strategy,
     output |-> merge_result.output]

\* line 198: whether the merge is followed by the commit of the squash
NeedsSquashCommitAlways(strategy) == TRUE

NeedsSquashCommit(strategy) == strategy = "squash"

\* line 181: whether the checkout stops the merge
CheckoutFailedIgnored(switch_result) == FALSE

CheckoutFailed(switch_result) == ~switch_result.success

\* lines 168-182: the checks and the checkout of the target branch
MergeCheckout(p) ==
    /\ pc[p] = "m_checkout"
    /\ UNCHANGED <<command, data, loc, ChainVars>>
    /\ LET d == data[p]
       IN  IF d.source_branch = Empty
           THEN /\ Finish(p, [error |-> Msg("Source branch required", <<>>)])
                /\ UNCHANGED <<issued, repo>>
           ELSE IF ~repo.isRepo
           THEN /\ Finish(p, [error |-> Msg("Not a git repository", <<>>)])
                /\ UNCHANGED <<issued, repo>>
           ELSE \E o \in ExecOutcomes :
                  LET switch_result == RunGitCommand(o, PlainOutput)
                  IN  /\ issued' = [issued EXCEPT ![p] =
                             Append(@, Call(CheckoutCommand(d.target_branch),
                                            switch_result))]
                      /\ repo' = IF switch_result.success
                                 THEN [repo EXCEPT !.head = d.target_branch]
                                 ELSE repo
                      /\ IF CheckoutFailed(switch_result)
                         THEN Finish(p, [error |->
                                  Msg("Failed to switch to {}: {}",
                                      <<d.target_branch, switch_result.error>>)])
                         ELSE /\ pc' = [pc EXCEPT ![p] = "m_merge"]
                              /\ resp' = resp

\* line 194; first with a merge that did not succeed taken as done
MergeFailedIgnored(merge_result) == FALSE

MergeFailed(merge_result) == ~merge_result.success

\* lines 184-195 and 203-209: the merge, and the response unless a commit follows
MergeMerge(p) ==
    /\ pc[p] = "m_merge"
    /\ UNCHANGED <<command, data, repo, ChainVars>>
    /\ \E o \in ExecOutcomes :
         LET d == data[p]
             merge_cmd == MergeCommand(d.strategy, d.source_branch)
             merge_result == RunGitCommand(o, PlainOutput)
         IN  /\ issued' = [issued EXCEPT ![p] =
                    Append(@, Call(merge_cmd, merge_result))]
             /\ loc' = [loc EXCEPT ![p].merge_result = merge_result]
             /\ IF MergeFailed(merge_result)
                THEN Finish(p, [error |->
                         Msg("Merge failed: {}", <<merge_result.error>>)])
                ELSE IF NeedsSquashCommit(d.strategy)
                THEN /\ pc' = [pc EXCEPT ![p] = "m_squash"]
                     /\ resp' = resp
                ELSE Finish(p, BranchesMerged(d, merge_result))

\* lines 197-209: the commit of a squash merge, and the response
MergeSquashCommit(p) ==
    /\ pc[p] = "m_squash"
    /\ UNCHANGED <<command, data, repo, loc, ChainVars>>
    /\ \E o \in ExecOutcomes :
         LET d == data[p]
             cmd == CommitCommand(SquashMessage(d.source_branch, d.target_branch))
             commit_result == RunGitCommand(o, PlainOutput)
         IN  /\ issued' = [issued EXCEPT ![p] = Append(@, Call(cmd, commit_result))]
             /\ IF ~commit_result.success
                THEN Finish(p, [error |->
                         Msg("Failed to commit squash merge: {}",
                             <<commit_result.error>>)])
                ELSE Finish(p, BranchesMerged(d, loc[p].merge_result))

-----------------------------------------------------------------------------
(* init: init_repository.                                                  *)

Name_bot == <<"A","u","t","o","m","a","t","i","o","n"," ","B","o","t">>
Email_bot ==
    <<"b","o","t","@","n","e","u","r","o","n","l","a","b","s",".","d","e","v">>

\* lines 66-70: the commands; first with the name set twice
InitCommandsNameTwice ==
    << [verb |-> "init"],
       [verb |-> "config", key |-> "user.name", value |-> Name_bot],
       [verb |-> "config", key |-> "user.name", value |-> Name_bot] >>

InitCommands ==
    << [verb |-> "init"],
       [verb |-> "config", key |-> "user.name", value |-> Name_bot],
       [verb |-> "config", key |-> "user.email", value |-> Email_bot] >>

\* lines 73-77: one turn of the loop, then lines 79-83 when the loop is over
InitRun(p, cmd) ==
    \E o \in ExecOutcomes :
      LET result == RunGitCommand(o, PlainOutput)
          results == Append(loc[p].results, [command |-> cmd, result |-> result])
      IN  /\ issued' = [issued EXCEPT ![p] = Append(@, Call(cmd, result))]
          /\ loc' = [loc EXCEPT ![p].results = results]
          /\ repo' = IF cmd.verb = "init" /\ result.success
                     THEN [repo EXCEPT !.isRepo = TRUE] ELSE repo
          /\ IF ~result.success
             THEN Finish(p, FailedToExecute(cmd, result))
             ELSE IF Len(results) = Len(InitCommands)
             THEN Finish(p, [status |-> "repository_initialized",
                             path |-> data[p].path,
                             results |-> results])
             ELSE /\ pc' = [pc EXCEPT ![p] = "i_config"]
                  /\ resp' = resp

\* lines 63-64, then the first command
InitRepository(p) ==
    /\ pc[p] = "i_init"
    /\ UNCHANGED <<command, data, ChainVars>>
    /\ IF repo.isRepo
       THEN /\ Finish(p, [error |-> Msg("Git repository already exists", <<>>)])
            /\ UNCHANGED <<issued, loc, repo>>
       ELSE InitRun(p, InitCommands[1])

\* the later commands of the loop
InitConfig(p) ==
    /\ pc[p] = "i_config"
    /\ UNCHANGED <<command, data, ChainVars>>
    /\ InitRun(p, InitCommands[Len(loc[p].results) + 1])

-----------------------------------------------------------------------------
(* status: get_repo_status.                                                *)

\* what git writes: every line ends with a newline
Lines(lines) == IF lines = <<>> THEN Empty ELSE Join(lines, NL) \o <<NL>>

CurrentBranchOutput == Lines(<<Branch_main>>)
PorcelainOutput(tree) == Lines(tree)
RecentLogOutput(window) ==
    Lines([i \in 1..Len(window) |-> AbbrevHash(i) \o <<" ">> \o window[i]])
BranchListOutput ==
    Lines(<< <<"*"," ">> \o Branch_main, <<" "," ">> \o Branch_dev >>)
\* the repository of a status request holds one tag
StatusTagsOutput(T) == Lines(SortVersionDesc(T))

\* output.split('\n') if output else []
OutputLines(output) == IF output # Empty THEN Split(output, NL) ELSE <<>>

\* [line[3:] for line in lines if line.startswith(prefix)]
Bucket(lines, prefix) ==
    LET kept == SelectSeq(lines, LAMBDA line : StartsWith(line, prefix))
    IN  [i \in 1..Len(kept) |-> SubSeq(kept[i], 4, Len(kept[i]))]

\* lines 256-261
Changes(lines) ==
    [modified |-> Bucket(lines, <<" ","M">>),
     added |-> Bucket(lines, <<"A"," ">>),
     deleted |-> Bucket(lines, <<" ","D">>),
     untracked |-> Bucket(lines, <<"?","?">>)]

\* line 262; first as the count of the lines that went into a bucket
IsCleanOfBuckets(lines) ==
    LET c == Changes(lines)
    IN  Len(c.modified) + Len(c.added) + Len(c.deleted) + Len(c.untracked) = 0

IsClean(lines) == Len(lines) = 0

\* s.replace('* ', '')
RECURSIVE RemoveStar(_)
RemoveStar(s) ==
    IF s = <<>> THEN s
    ELSE IF StartsWith(s, <<"*"," ">>) THEN RemoveStar(SubSeq(s, 3, Len(s)))
    ELSE <<s[1]>> \o RemoveStar(Tail(s))

\* lines 271-275
BranchNames(output) ==
    LET kept == SelectSeq(Split(output, NL), LAMBDA branch : Strip(branch) # Empty)
    IN  [i \in 1..Len(kept) |-> RemoveStar(Strip(kept[i]))]

\* one query of the status: the call, and the field it gives when it has one
StatusQuery(p, cmd, result, next) ==
    /\ issued' = [issued EXCEPT ![p] = Append(@, Call(cmd, result))]
    /\ pc' = [pc EXCEPT ![p] = next]
    /\ resp' = resp

\* lines 243-250
StatusBranch(p) ==
    /\ pc[p] = "s_branch"
    /\ UNCHANGED <<command, data, repo, ChainVars>>
    /\ IF ~repo.isRepo
       THEN /\ Finish(p, [error |-> Msg("Not a git repository", <<>>)])
            /\ UNCHANGED <<issued, loc>>
       ELSE \E o \in ExecOutcomes :
              LET result == RunGitCommand(o, CurrentBranchOutput)
              IN  /\ StatusQuery(p, [verb |-> "branch --show-current"], result,
                                 "s_status")
                  /\ loc' = [loc EXCEPT ![p].status_info =
                                @ @@ ("current_branch" :>
                                         IF result.success THEN result.output
                                         ELSE Unknown)]

\* lines 253-262
StatusPorcelain(p) ==
    /\ pc[p] = "s_status"
    /\ UNCHANGED <<command, data, repo, ChainVars>>
    /\ \E o \in ExecOutcomes :
         LET result == RunGitCommand(o, PorcelainOutput(repo.porcelain))
             lines == OutputLines(result.output)
         IN  /\ StatusQuery(p, [verb |-> "status --porcelain"], result, "s_log")
             /\ loc' = IF result.success
                       THEN [loc EXCEPT ![p].status_info =
                                @ @@ ("changes" :> Changes(lines))
                                  @@ ("clean" :> IsClean(lines))]
                       ELSE loc

\* lines 264-266
StatusLog(p) ==
    /\ pc[p] = "s_log"
    /\ UNCHANGED <<command, data, repo, ChainVars>>
    /\ \E o \in ExecOutcomes :
         LET result == RunGitCommand(o, RecentLogOutput(repo.log))
         IN  /\ StatusQuery(p, [verb |-> "log --oneline -n 5"], result,
                            "s_branches")
             /\ loc' = IF result.success
                       THEN [loc EXCEPT ![p].status_info =
                                @ @@ ("recent_commits" :>
                                         OutputLines(result.output))]
                       ELSE loc

\* lines 269-275
StatusBranches(p) ==
    /\ pc[p] = "s_branches"
    /\ UNCHANGED <<command, data, repo, ChainVars>>
    /\ \E o \in ExecOutcomes :
         LET result == RunGitCommand(o, BranchListOutput)
         IN  /\ StatusQuery(p, [verb |-> "branch -a"], result, "s_tags")
             /\ loc' = IF result.success
                       THEN [loc EXCEPT ![p].status_info =
                                @ @@ ("branches" :> BranchNames(result.output))]
                       ELSE loc

\* lines 278-286
StatusTags(p) ==
    /\ pc[p] = "s_tags"
    /\ UNCHANGED <<command, data, repo, ChainVars>>
    /\ \E o \in ExecOutcomes :
         LET result == RunGitCommand(o, StatusTagsOutput(repo.tags))
             status_info ==
                 IF result.success
                 THEN loc[p].status_info
                          @@ ("tags" :> OutputLines(result.output))
                 ELSE loc[p].status_info
         IN  /\ issued' = [issued EXCEPT ![p] =
                              Append(@, Call([verb |-> "tag -l"], result))]
             /\ loc' = [loc EXCEPT ![p].status_info = status_info]
             /\ Finish(p, [status |-> "repo_status_retrieved",
                           path |-> data[p].path,
                           info |-> status_info])

-----------------------------------------------------------------------------
(* create_branch.                                                          *)

\* re.match(r'^[a-zA-Z0-9/_-]+$', branch_name); $ also matches before a
\* newline that ends the string
BranchNameMatch(branch_name) ==
    LET n == Len(branch_name)
        body == IF n >= 1 /\ branch_name[n] = NL
                THEN SubSeq(branch_name, 1, n - 1) ELSE branch_name
    IN  /\ body # Empty
        /\ \A i \in 1..Len(body) :
               body[i] \in Letters \cup Digits \cup {"/", "_", "-"}

\* lines 91-99: the checks; NoResp when the request passes
CreateBranchCheck(isRepo, branch_name) ==
    IF branch_name = Empty THEN [error |-> Msg("Branch name required", <<>>)]
    ELSE IF ~isRepo THEN [error |-> Msg("Not a git repository", <<>>)]
    ELSE IF ~BranchNameMatch(branch_name)
    THEN [error |-> Msg("Invalid branch name", <<>>)]
    ELSE NoResp

\* line 101
CreateBranchCommand(branch_name, switch) ==
    IF switch THEN [verb |-> "checkout -b", branch |-> branch_name]
    ELSE [verb |-> "branch", branch |-> branch_name]

\* line 105: the error of a branch that git did not create; first as the
\* error of the name check
CreateBranchFailedAsInvalid(result) ==
    [error |-> Msg("Invalid branch name", <<>>)]

CreateBranchFailed(result) ==
    [error |-> Msg("Failed to create branch: {}", <<result.error>>)]

\* lines 85-112
CreateBranch(p) ==
    /\ pc[p] = "b_create"
    /\ UNCHANGED <<command, data, loc, ChainVars>>
    /\ LET d == data[p]
           rejected == CreateBranchCheck(repo.isRepo, d.branch_name)
       IN  IF rejected # NoResp
           THEN /\ Finish(p, rejected)
                /\ UNCHANGED <<issued, repo>>
           ELSE \E o \in ExecOutcomes :
                  LET cmd == CreateBranchCommand(d.branch_name, d.switch)
                      result == RunGitCommand(o, PlainOutput)
                  IN  /\ issued' = [issued EXCEPT ![p] = Append(@, Call(cmd, result))]
                      /\ repo' = IF result.success /\ d.switch
                                 THEN [repo EXCEPT !.head = d.branch_name]
                                 ELSE repo
                      /\ IF ~result.success
                         THEN Finish(p, CreateBranchFailed(result))
                         ELSE Finish(p, [status |-> "branch_created",
                                         branch_name |-> d.branch_name,
                                         switched |-> d.switch,
                                         output |-> result.output])

-----------------------------------------------------------------------------
(* tag: create_tag.                                                        *)

\* re.match(r'^v?\d+\.\d+\.\d+', tag_name); first with the v required
TagFormatMatchV(tag_name) == VersionMatch(tag_name) # <<>>

TagFormatMatch(tag_name) ==
    IF tag_name # Empty /\ tag_name[1] = "v"
    THEN VersionMatch(tag_name) # <<>>
    ELSE VersionMatch(<<"v">> \o tag_name) # <<>>

\* lines 217-225: the checks; NoResp when the request passes
CreateTagCheck(isRepo, tag_name) ==
    IF tag_name = Empty THEN [error |-> Msg("Tag name required", <<>>)]
    ELSE IF ~isRepo THEN [error |-> Msg("Not a git repository", <<>>)]
    ELSE IF ~TagFormatMatch(tag_name)
    THEN [error |->
             Msg("Tag should follow semantic versioning (e.g., v1.0.0)", <<>>)]
    ELSE NoResp

\* message or tag_name
MessageOr(message, tag_name) == IF message # Empty THEN message ELSE tag_name

\* lines 211-237. git refuses a tag that exists.
CreateTag(p) ==
    /\ pc[p] = "t_create"
    /\ UNCHANGED <<command, data, loc, ChainVars>>
    /\ LET d == data[p]
           rejected == CreateTagCheck(repo.isRepo, d.tag_name)
       IN  IF rejected # NoResp
           THEN /\ Finish(p, rejected)
                /\ UNCHANGED <<issued, repo>>
           ELSE \E o \in ExecOutcomes :
                  LET cmd == [verb |-> "tag -a", name |-> d.tag_name,
                              message |-> MessageOr(d.message, d.tag_name)]
                      result == RunGitCommand(o, Empty)
                  IN  /\ o = "ok" => d.tag_name \notin repo.tags
                      /\ issued' = [issued EXCEPT ![p] = Append(@, Call(cmd, result))]
                      /\ IF ~result.success
                         THEN /\ Finish(p, [error |->
                                     Msg("Failed to create tag: {}",
                                         <<result.error>>)])
                              /\ repo' = repo
                         ELSE /\ Finish(p, [status |-> "tag_created",
                                            tag_name |-> d.tag_name,
                                            message |->
                                                MessageOr(d.message, d.tag_name)])
                              /\ repo' = [repo EXCEPT !.tags = @ \cup {d.tag_name}]

-----------------------------------------------------------------------------
(* process_command and git_endpoint: a command that has no handler.        *)

\* line 371; first with a status field beside the error
UnknownCommandWithStatus(c) ==
    [status |-> "error", error |-> Msg("Unknown command: {}", <<c>>)]

UnknownCommand(c) == [error |-> Msg("Unknown command: {}", <<c>>)]

\* lines 387-389 and 370-371
ProcessUnknown(p) ==
    /\ pc[p] = "unknown"
    /\ UNCHANGED <<command, data, repo, loc, issued, ChainVars>>
    /\ IF command[p] = ""
       THEN Finish(p, [error |-> Msg("No command specified", <<>>)])
       ELSE Finish(p, UnknownCommand(command[p]))

-----------------------------------------------------------------------------
(* The specification of one request.                                       *)

Commands ==
    {"version_bump", "commit", "merge", "create_branch", "tag", "init", "status"}
        \cup UnknownCommands

Init ==
    /\ \E c \in Commands :
         /\ command = [p \in Procs |-> IF p = 1 THEN c ELSE "none"]
         /\ \E d \in Requests(c) :
              /\ data = [p \in Procs |-> IF p = 1 THEN d ELSE [unused |-> TRUE]]
              /\ repo \in Repos(c, d)
         /\ pc = [p \in Procs |-> IF p = 1 THEN FirstPc(c) ELSE "done"]
    /\ loc = [p \in Procs |-> LocInit]
    /\ issued = [p \in Procs |-> <<>>]
    /\ resp = [p \in Procs |-> NoResp]
    /\ bumpFrom = ZeroVersion
    /\ bumpNow = ZeroVersion
    /\ bumpCount = 0

\* the next step of the handler of request p
Step(p) ==
        \/ VbListTags(p)
        \/ VbLog(p)
        \/ VbTag(p)
        \/ CommitAdd(p)
        \/ CommitCommit(p)
        \/ CommitHash(p)
        \/ MergeCheckout(p)
        \/ MergeMerge(p)
        \/ MergeSquashCommit(p)
        \/ CreateBranch(p)
        \/ CreateTag(p)
        \/ InitRepository(p)
        \/ InitConfig(p)
        \/ StatusBranch(p)
        \/ StatusPorcelain(p)
        \/ StatusLog(p)
        \/ StatusBranches(p)
        \/ StatusTags(p)
        \/ ProcessUnknown(p)

\* git_endpoint takes no lock and app.run serves every request in a thread
\* of its own: the handler of a request runs whatever the other requests
\* do. First with one handler at a time.
MayRunAlone(p) ==
    \A q \in Procs \ {p} : pc[q] = "done" \/ issued[q] = <<>>

MayRun(p) == TRUE

Next == \E p \in Procs : MayRun(p) /\ Step(p)

Spec == Init /\ [][Next]_vars

\* the requests of the specification of termination: of every command a few
Representative ==
    LET c == command[1]
        d == data[1]
    IN  /\ c = "version_bump" =>
               /\ d.type \in {"auto", "patch"}
               /\ repo.tags \in {{}, {Tag_vx}}
               /\ repo.log \in {<<>>, <<Subj_feat>>}
        /\ c = "commit" =>
               /\ d.type \in {Type_feat, Type_wip}
               /\ d.scope = Empty /\ d.body = Empty /\ ~d.breaking
        /\ c = "merge" =>
               /\ d.source_branch = Branch_dev
               /\ d.target_branch = Branch_main
        /\ c = "create_branch" => d.switch
        /\ c = "tag" => d.message = Empty
        /\ c = "status" =>
               /\ repo.porcelain = <<Line_modified>>
               /\ repo.log = <<Subj_fix>>

InitLive == Init /\ Representative

\* a handler that has not returned takes its next step: subprocess.run
\* returns or raises, and the code after it runs
SpecLive == InitLive /\ [][Next]_vars /\ WF_vars(Next)

-----------------------------------------------------------------------------
(* The specification of two version_bump requests on one repository.       *)

PairTypes == {"patch", "auto"}

InitPair ==
    /\ command = [p \in Procs |-> "version_bump"]
    /\ data \in [Procs -> {[type |-> t] : t \in PairTypes}]
    /\ repo \in [isRepo : {TRUE}, tags : {{}, {Tag_v1_2_3}},
                 log : {<<Subj_fix>>, <<Subj_feat>>}, porcelain : {<<>>},
                 head : {Branch_work}]
    /\ pc = [p \in Procs |-> FirstPc("version_bump")]
    /\ loc = [p \in Procs |-> LocInit]
    /\ issued = [p \in Procs |-> <<>>]
    /\ resp = [p \in Procs |-> NoResp]
    /\ bumpFrom = ZeroVersion
    /\ bumpNow = ZeroVersion
    /\ bumpCount = 0

NextPair ==
    \E p \in Procs :
        /\ MayRun(p)
        /\ \/ VbListTags(p)
           \/ VbLog(p)
           \/ VbTag(p)

SpecPair == InitPair /\ [][NextPair]_vars

-----------------------------------------------------------------------------
(* The specification of a chain of Patch bumps: Bump applied again and     *)
(* again to a version.                                                     *)

Versions == [major : 0..MaxPart, minor : 0..MaxPart, patch : 0..MaxPart]

InitChain ==
    /\ command = [p \in Procs |-> "none"]
    /\ data = [p \in Procs |-> [unused |-> TRUE]]
    /\ repo = [isRepo |-> FALSE, tags |-> {}, log |-> <<>>, porcelain |-> <<>>,
               head |-> Branch_work]
    /\ pc = [p \in Procs |-> "done"]
    /\ loc = [p \in Procs |-> LocInit]
    /\ issued = [p \in Procs |-> <<>>]
    /\ resp = [p \in Procs |-> NoResp]
    /\ bumpFrom \in Versions
    /\ bumpNow = bumpFrom
    /\ bumpCount = 0

PatchAgain ==
    /\ bumpCount < MaxChain
    /\ bumpNow' = Bump(bumpNow, "patch")
    /\ bumpCount' = bumpCount + 1
    /\ UNCHANGED <<command, data, repo, pc, loc, issued, resp, bumpFrom>>

NextChain == PatchAgain

SpecChain == InitChain /\ [][NextChain]_vars

-----------------------------------------------------------------------------
(* Properties.                                                             *)

IsSuccess(r) == "status" \in DOMAIN r
IsError(r) == "error" \in DOMAIN r

BumpRequests == {p \in Procs : command[p] = "version_bump"}
CommitRequestsIn == {p \in Procs : command[p] = "commit"}
MergeRequestsIn == {p \in Procs : command[p] = "merge"}

\* the tag listing of request p succeeded
TagsListed(p) ==
    /\ Len(issued[p]) >= 1
    /\ issued[p][1].cmd.verb = "tag -l"
    /\ issued[p][1].result.success

\* the log query of request p succeeded
LogListed(p) ==
    /\ Len(issued[p]) >= 2
    /\ issued[p][2].cmd.verb = "log"
    /\ issued[p][2].result.success

\* a tag of the canonical form v{major}.{minor}.{patch}, and nothing after it
IsCanonicalTag(t) ==
    /\ VersionMatch(t) # <<>>
    /\ VersionMatch(t)[3][2] = Len(t)

VersionLess(a, b) ==
    \/ a.major < b.major
    \/ a.major = b.major /\ a.minor < b.minor
    \/ a.major = b.major /\ a.minor = b.minor /\ a.patch < b.patch

CanonicalVersions(T) == {VersionGroups(t) : t \in {u \in T : IsCanonicalTag(u)}}

MaxCanonical(T) ==
    IF CanonicalVersions(T) = {} THEN ZeroVersion
    ELSE CHOOSE v \in CanonicalVersions(T) :
             \A w \in CanonicalVersions(T) : ~VersionLess(v, w)

\* what the handler resolves from a listing of the tags T
ResolveCurrent(T) ==
    LET current_version == CurrentVersion(RunGitCommand("ok", TagListOutput(T)))
    IN  IF VersionMatch(current_version) = <<>>
        THEN [ok |-> FALSE, version |-> ZeroVersion]
        ELSE [ok |-> TRUE, version |-> VersionGroups(current_version)]

\* request p has resolved the current version, or has failed to
Resolved(p) == TagsListed(p) /\ pc[p] \in {"vb_log", "vb_tag"}
ResolutionFailed(p) ==
    /\ TagsListed(p) /\ pc[p] = "done" /\ IsError(resp[p])
    /\ resp[p].error.template = "Invalid current version format: {}"

\* C1: whatever tags the repository holds, the version that version_bump
\* resolves as current is the greatest, in the order on (major, minor,
\* patch), of the tags of the form v{major}.{minor}.{patch}, and 0.0.0 when
\* there is none; in particular the resolution does not fail.
C1_ResolvesMaxCanonical ==
    \A p \in BumpRequests :
        /\ ~ResolutionFailed(p)
        /\ Resolved(p) =>
               VersionGroups(loc[p].current_version) = MaxCanonical(repo.tags)

\* C2: a tag that is not of the form v{major}.{minor}.{patch} is left out of
\* the resolution: what request p resolved from the tags of the repository
\* is what is resolved without any one of its non-canonical tags, and a
\* resolution that succeeds without the tag does not fail with it.
C2_NonCanonicalExcluded ==
    \A p \in BumpRequests :
        \A n \in {t \in repo.tags : ~IsCanonicalTag(t)} :
            LET without == ResolveCurrent(repo.tags \ {n})
            IN  /\ ResolutionFailed(p) => ~without.ok
                /\ Resolved(p) =>
                       /\ without.ok
                       /\ VersionGroups(loc[p].current_version) = without.version

\* C3: the new_version of a successful version_bump is the previous version
\* with major + 1 and minor, patch zero for a major bump, with minor + 1 and
\* patch zero for a minor bump, with patch + 1 for a patch bump, written as
\* v{major}.{minor}.{patch}.
C3_BumpRule ==
    \A p \in BumpRequests :
        pc[p] = "done" /\ IsSuccess(resp[p]) =>
            LET old == VersionGroups(resp[p].previous_version)
                new == resp[p].new_version
                v(a, b, c) == FormatVersion([major |-> a, minor |-> b, patch |-> c])
            IN  /\ resp[p].bump_type = "major" => new = v(old.major + 1, 0, 0)
                /\ resp[p].bump_type = "minor" => new = v(old.major, old.minor + 1, 0)
                /\ resp[p].bump_type = "patch" =>
                       new = v(old.major, old.minor, old.patch + 1)

C3_Witness ==
    \E p \in BumpRequests :
        /\ pc[p] = "done" /\ IsSuccess(resp[p])
        /\ resp[p].bump_type = "minor"
        /\ resp[p].previous_version = Tag_v1_2_3
        /\ resp[p].new_version = <<"v","1",".","3",".","0">>

\* C4: after N Patch bumps in a row a version has its patch raised by N and
\* its major and minor as they were.
C4_PatchChain ==
    /\ bumpNow.patch = bumpFrom.patch + bumpCount
    /\ bumpNow.major = bumpFrom.major
    /\ bumpNow.minor = bumpFrom.minor

C4_Witness ==
    /\ bumpCount >= 2
    /\ bumpFrom.minor > 0
    /\ bumpFrom.patch > 0

\* a subject that marks a breaking change: it holds the words BREAKING CHANGE
\* or a type followed by "!:"
HasTypeBang(subject) ==
    \E i \in 1..Len(subject) : \E j \in i..Len(subject) :
        /\ \A k \in i..j : IsWord(subject[k])
        /\ j + 2 <= Len(subject)
        /\ subject[j + 1] = "!" /\ subject[j + 2] = ":"

IsMajorSubject(subject) ==
    Contains(subject, BreakingChange) \/ HasTypeBang(subject)

\* a subject whose type is feat: feat, then a scope or the colon
IsFeatSubject(subject) ==
    \/ StartsWith(subject, Feat \o <<":">>)
    \/ StartsWith(subject, Feat \o <<"(">>)

\* C5: when the window of recent commits holds a subject that marks a
\* breaking change, at whatever place and among whatever other subjects, the
\* bump type detected by version_bump with type auto is major.
C5_MajorDominates ==
    \A p \in BumpRequests :
        /\ data[p].type = "auto"
        /\ LogListed(p)
        /\ \E i \in 1..Len(repo.log) : IsMajorSubject(repo.log[i])
        => /\ loc[p].bump_type = "major"
           /\ pc[p] = "done" /\ IsSuccess(resp[p]) => resp[p].bump_type = "major"

C5_Witness ==
    \E p \in BumpRequests :
        /\ data[p].type = "auto" /\ LogListed(p)
        /\ Len(repo.log) = 2
        /\ repo.log[1] = Subj_fix
        /\ repo.log[2] = Subj_breaking
        /\ pc[p] = "done" /\ IsSuccess(resp[p])
        /\ resp[p].bump_type = "major"

\* C6: when no subject of the window marks a breaking change, the bump type
\* detected is minor if and only if some subject has the type feat, and is
\* patch otherwise; the letters feat inside another word do not count.
C6_MinorIffFeat ==
    \A p \in BumpRequests :
        /\ data[p].type = "auto"
        /\ LogListed(p)
        /\ \A i \in 1..Len(repo.log) : ~IsMajorSubject(repo.log[i])
        => IF \E i \in 1..Len(repo.log) : IsFeatSubject(repo.log[i])
           THEN loc[p].bump_type = "minor"
           ELSE loc[p].bump_type = "patch"

InvalidCommitType == "Invalid commit type. Valid types: {}"
MissingDescription == "Commit description required"
NotARepository == "Not a git repository"

\* request p was turned down with the error `template`
FailedWith(p, template) ==
    pc[p] = "done" /\ IsError(resp[p]) /\ resp[p].error.template = template

\* request p built no commit message and ran no command
NothingDone(p) ==
    /\ issued[p] = <<>>
    /\ loc[p].commit_msg = Empty
    /\ "message" \notin DOMAIN resp[p]

\* C7, as claimed: a commit whose type is not a conventional one fails with
\* the invalid-commit-type error and a commit whose description is empty
\* fails with the missing-description error, each time with no message built
\* and no command run.
C7_AsClaimed ==
    \A p \in CommitRequestsIn :
        pc[p] = "done" =>
            /\ data[p].type \notin ConventionalCommitTypes =>
                   FailedWith(p, InvalidCommitType) /\ NothingDone(p)
            /\ data[p].description = Empty =>
                   FailedWith(p, MissingDescription) /\ NothingDone(p)

\* C7, amended: a commit with an unknown type or an empty description fails
\* with no message built and no command run; in a repository the error is
\* invalid-commit-type when the type is unknown and missing-description when
\* the type is known and the description is empty; outside a repository it
\* is not-a-repository.
C7_ValidationOrder ==
    \A p \in CommitRequestsIn :
        LET badType == data[p].type \notin ConventionalCommitTypes
            noDescription == data[p].description = Empty
        IN  /\ badType \/ noDescription => pc[p] \in {"c_add", "done"}
            /\ pc[p] = "done" /\ (badType \/ noDescription) =>
                   /\ IsError(resp[p]) /\ ~IsSuccess(resp[p])
                   /\ NothingDone(p)
                   /\ ~repo.isRepo => FailedWith(p, NotARepository)
                   /\ repo.isRepo /\ badType => FailedWith(p, InvalidCommitType)
                   /\ repo.isRepo /\ ~badType => FailedWith(p, MissingDescription)

C7_Witness ==
    \E p \in CommitRequestsIn :
        /\ repo.isRepo
        /\ data[p].type = Type_fix
        /\ data[p].description = Empty
        /\ FailedWith(p, MissingDescription)
        /\ NothingDone(p)

\* the paragraphs of the message of a commit request, in their order
MessageParagraphs(d) ==
    <<d.type
        \o (IF d.scope = Empty THEN Empty ELSE <<"(">> \o d.scope \o <<")">>)
        \o (IF d.breaking THEN <<"!">> ELSE Empty)
        \o <<":", " ">> \o d.description>>
    \o (IF d.body = Empty THEN <<>> ELSE <<d.body>>)
    \o (IF d.breaking
        THEN <<BreakingChange \o <<":", " ">> \o d.description>>
        ELSE <<>>)

\* the paragraphs with a blank line between them
RECURSIVE Layout(_)
Layout(paragraphs) ==
    IF Len(paragraphs) = 1 THEN paragraphs[1]
    ELSE paragraphs[1] \o <<NL, NL>> \o Layout(Tail(paragraphs))

\* C8: the message of a commit is its type, "(scope)" when there is a scope,
\* "!" when it is breaking, ": " and the description; then, after a blank
\* line, the body when there is one; then, after a blank line, "BREAKING
\* CHANGE: " and the description when it is breaking. This is the message
\* handed to git commit and the message of the response.
C8_MessageLayout ==
    \A p \in CommitRequestsIn :
        /\ \A i \in 1..Len(issued[p]) :
               issued[p][i].cmd.verb = "commit" =>
                   issued[p][i].cmd.message = Layout(MessageParagraphs(data[p]))
        /\ IsSuccess(resp[p]) =>
               resp[p].message = Layout(MessageParagraphs(data[p]))

C8_Witness ==
    \E p \in CommitRequestsIn :
        /\ data[p] = [type |-> Type_fix, scope |-> Scope_auth,
                      description |-> Desc_token, body |-> Empty,
                      breaking |-> FALSE]
        /\ pc[p] = "done" /\ IsSuccess(resp[p])
        /\ resp[p].message =
               <<"f","i","x","(","a","u","t","h",")",":"," ","h","a","n","d",
                 "l","e"," ","n","u","l","l"," ","t","o","k","e","n">>

\* the places of the commit commands among the calls of request p
CommitCalls(p) == {i \in 1..Len(issued[p]) : issued[p][i].cmd.verb = "commit"}

\* C9: a merge that ends with the success response has run exactly one
\* commit when the strategy is squash, right after the merge --squash that
\* succeeded, and has run no commit when the strategy is merge or rebase.
C9_SquashCommitsOnce ==
    \A p \in MergeRequestsIn :
        pc[p] = "done" /\ IsSuccess(resp[p]) =>
            /\ data[p].strategy = "squash" =>
                   /\ Cardinality(CommitCalls(p)) = 1
                   /\ \A i \in CommitCalls(p) :
                          /\ i > 1
                          /\ issued[p][i - 1].cmd.verb = "merge --squash"
                          /\ issued[p][i - 1].result.success
            /\ data[p].strategy \in {"merge", "rebase"} => CommitCalls(p) = {}

C9_Witness ==
    \E p \in MergeRequestsIn :
        /\ pc[p] = "done" /\ IsSuccess(resp[p])
        /\ data[p].strategy = "squash"
        /\ Cardinality(CommitCalls(p)) = 1

\* the commands of a merge that runs to its end
FullMerge(d) ==
    <<[verb |-> "checkout", branch |-> d.target_branch]>>
    \o <<CASE d.strategy = "merge" -> [verb |-> "merge", branch |-> d.source_branch]
           [] d.strategy = "squash" ->
                  [verb |-> "merge --squash", branch |-> d.source_branch]
           [] d.strategy = "rebase" -> [verb |-> "rebase", branch |-> d.source_branch]>>
    \o (IF d.strategy = "squash"
        THEN <<[verb |-> "commit",
                message |-> SquashMessage(d.source_branch, d.target_branch)]>>
        ELSE <<>>)

MergeStep(p) == MergeCheckout(p) \/ MergeMerge(p) \/ MergeSquashCommit(p)

\* C10: the commands of a merge with one of the three strategies are the
\* first commands of: checkout of the target, the command of the strategy,
\* the commit for squash; all of them but the last have succeeded; the merge
\* can go on until it has a response, which is either the success response
\* or an error response; and the success response comes only after every
\* command of the sequence has succeeded.
C10_MergeSequence ==
    \A p \in MergeRequestsIn :
        data[p].strategy \in {"merge", "squash", "rebase"} =>
            LET full == FullMerge(data[p])
                n == Len(issued[p])
            IN  /\ n <= Len(full)
                /\ \A i \in 1..n : issued[p][i].cmd = full[i]
                /\ \A i \in 1..(n - 1) : issued[p][i].result.success
                /\ pc[p] # "done" =>
                       /\ resp[p] = NoResp
                       /\ ENABLED MergeStep(p)
                       /\ \A i \in 1..n : issued[p][i].result.success
                /\ pc[p] = "done" =>
                       /\ IsSuccess(resp[p]) # IsError(resp[p])
                       /\ IsSuccess(resp[p]) <=>
                              /\ n = Len(full)
                              /\ \A i \in 1..n : issued[p][i].result.success

C10_Witness ==
    \E p \in MergeRequestsIn :
        /\ data[p].strategy = "squash"
        /\ pc[p] = "done" /\ IsError(resp[p])
        /\ Len(issued[p]) = 3
        /\ ~issued[p][3].result.success

CheckoutFailedError == "Failed to switch to {}: {}"
MergeFailedError == "Merge failed: {}"
SquashCommitFailedError == "Failed to commit squash merge: {}"

\* the i-th call of request p ran `verb` and failed
CallFailed(p, i, verb) ==
    /\ Len(issued[p]) >= i
    /\ issued[p][i].cmd.verb = verb
    /\ ~issued[p][i].result.success

MergeVerbs == {"merge", "merge --squash", "rebase"}

\* C11: when the checkout of the target branch fails the merge ends with the
\* checkout-failed error, and the checkout is the only command it has run:
\* no merge, no rebase, no commit.
C11_CheckoutFailureAborts ==
    \A p \in MergeRequestsIn :
        CallFailed(p, 1, "checkout") =>
            /\ FailedWith(p, CheckoutFailedError)
            /\ ~IsSuccess(resp[p])
            /\ Len(issued[p]) = 1
            /\ \A i \in 1..Len(issued[p]) :
                   issued[p][i].cmd.verb \notin MergeVerbs \cup {"commit"}

C11_Witness ==
    \E p \in MergeRequestsIn :
        /\ CallFailed(p, 1, "checkout")
        /\ data[p].strategy = "squash"
        /\ FailedWith(p, CheckoutFailedError)

\* the error message of response r holds `text` among the values put in it
ErrorMentions(r, text) ==
    \E i \in 1..Len(r.error.values) : Contains(r.error.values[i], text)

\* C12: when the command of the strategy fails the merge ends with the
\* merge-failed error, whose message holds the source branch, the target
\* branch and the error text of the executor.
C12_MergeFailureNamesBranches ==
    \A p \in MergeRequestsIn :
        (\E v \in MergeVerbs : CallFailed(p, 2, v)) =>
            /\ FailedWith(p, MergeFailedError)
            /\ ErrorMentions(resp[p], data[p].source_branch)
            /\ ErrorMentions(resp[p], data[p].target_branch)
            /\ ErrorMentions(resp[p], issued[p][2].result.error)

\* C13: after a merge --squash that succeeded the next command is a commit
\* with the message "Merge {source} into {target}" of the request's
\* branches; when that commit fails the merge ends with the
\* squash-commit-failed error and not with the success response.
C13_SquashCommit ==
    \A p \in MergeRequestsIn :
        /\ data[p].strategy = "squash" /\ Len(issued[p]) >= 2
               /\ issued[p][2].result.success =>
               /\ pc[p] \in {"m_squash", "done"}
               /\ pc[p] = "done" =>
                      /\ Len(issued[p]) = 3
                      /\ issued[p][3].cmd.verb = "commit"
                      /\ issued[p][3].cmd.message =
                             <<"M","e","r","g","e"," ">> \o data[p].source_branch
                                 \o <<" ","i","n","t","o"," ">>
                                 \o data[p].target_branch
        /\ CallFailed(p, 3, "commit") =>
               /\ FailedWith(p, SquashCommitFailedError)
               /\ ~IsSuccess(resp[p])

C13_Witness ==
    \E p \in MergeRequestsIn :
        /\ data[p].source_branch = Branch_dev
        /\ data[p].target_branch = Branch_main
        /\ CallFailed(p, 3, "commit")
        /\ issued[p][3].cmd.message =
               <<"M","e","r","g","e"," ","d","e","v"," ","i","n","t","o"," ",
                 "m","a","i","n">>
        /\ FailedWith(p, SquashCommitFailedError)

\* a branch name of alphanumerics, "/", "_" and "-", and not empty
IsBranchName(b) ==
    /\ b # Empty
    /\ \A i \in 1..Len(b) : b[i] \in Letters \cup Digits \cup {"/", "_", "-"}

InvalidBranchName == "Invalid branch name"

\* C14: a merge whose source or target branch is not a branch name runs no
\* command, the checkout included, and is never answered with the success
\* response; in a repository, with a source branch given, it ends with the
\* invalid-branch-name error.
C14_MergeValidatesBranches ==
    \A p \in MergeRequestsIn :
        ~(IsBranchName(data[p].source_branch)
              /\ IsBranchName(data[p].target_branch)) =>
            /\ issued[p] = <<>>
            /\ pc[p] = "done" =>
                   /\ ~IsSuccess(resp[p])
                   /\ repo.isRepo /\ data[p].source_branch # Empty =>
                          FailedWith(p, InvalidBranchName)

InvalidTagFormat == "Tag should follow semantic versioning (e.g., v1.0.0)"

ValidationErrors ==
    {InvalidBranchName, InvalidTagFormat, InvalidCommitType, MissingDescription}

\* C15: a request that ends with a validation error (invalid branch name,
\* invalid tag format, invalid commit type, missing description) has run no
\* command.
C15_ValidationBeforeCalls ==
    \A p \in Procs :
        pc[p] = "done" /\ IsError(resp[p])
            /\ resp[p].error.template \in ValidationErrors =>
            issued[p] = <<>>

C15_Witness ==
    \E p \in Procs :
        /\ command[p] = "create_branch"
        /\ data[p].branch_name = Branch_bad
        /\ FailedWith(p, InvalidBranchName)
        /\ issued[p] = <<>>

FailedToExecuteError == "Failed to execute: {}"

\* the error templates of the steps of a merge, in the order of the steps
MergeStepErrors ==
    <<CheckoutFailedError, MergeFailedError, SquashCommitFailedError>>

\* the steps of the sequence of request p: every call of init and merge, the
\* add and the commit of a commit
InSequence(p, i) == command[p] = "commit" => i <= 2

\* the error response of request p names its i-th call and carries the error
\* text of that call
NamesStep(p, i) ==
    LET call == issued[p][i]
        r == resp[p]
    IN  /\ IsError(r) /\ ~IsSuccess(r)
        /\ IF command[p] = "merge"
           THEN /\ r.error.template = MergeStepErrors[i]
                /\ ErrorMentions(r, call.result.error)
           ELSE /\ r.error = [template |-> FailedToExecuteError,
                              values |-> <<call.cmd>>]
                /\ "details" \in DOMAIN r
                /\ r.details = call.result.error

\* C16: in the sequences of init, commit and merge a step that failed is the
\* last command the request has run, the request has ended, and its error
\* names that step and carries the error text the executor gave for it.
C16_FailFast ==
    \A p \in Procs :
        command[p] \in {"init", "commit", "merge"} =>
            \A i \in 1..Len(issued[p]) :
                ~issued[p][i].result.success /\ InSequence(p, i) =>
                    /\ i = Len(issued[p])
                    /\ pc[p] = "done"
                    /\ NamesStep(p, i)

C16_Witness ==
    \E p \in Procs :
        /\ command[p] = "init"
        /\ Len(issued[p]) = 2
        /\ issued[p][1].result.success
        /\ issued[p][2].cmd.key = "user.name"
        /\ issued[p][2].result.error = <<"f","a","t","a","l">>
        /\ pc[p] = "done"
        /\ resp[p].details = <<"f","a","t","a","l">>

\* C17: a request has run no command twice, whatever the results were.
C17_NoRetry ==
    \A p \in Procs :
        \A i, j \in 1..Len(issued[p]) :
            i # j => issued[p][i].cmd # issued[p][j].cmd

C17_Witness ==
    \E p \in Procs :
        /\ command[p] = "init"
        /\ pc[p] = "done"
        /\ Len(issued[p]) = 3
        /\ ~issued[p][3].result.success

\* response r carries `text` as its details or in its error message
Carries(r, text) ==
    IF "details" \in DOMAIN r THEN r.details = text
    ELSE ErrorMentions(r, text)

\* C18: a commit, merge, tag, create_branch, init or version_bump request
\* that has ended after one of its commands failed has ended with an error
\* response that carries the error text of that command.
C18_FailureSurfaced ==
    \A p \in Procs :
        command[p] \in {"commit", "merge", "tag", "create_branch", "init",
                        "version_bump"} /\ pc[p] = "done" =>
            \A i \in 1..Len(issued[p]) :
                ~issued[p][i].result.success =>
                    /\ IsError(resp[p]) /\ ~IsSuccess(resp[p])
                    /\ Carries(resp[p], issued[p][i].result.error)

StatusRequestsIn == {p \in Procs : command[p] = "status"}

\* the porcelain query of request p succeeded
StatusListed(p) ==
    /\ Len(issued[p]) >= 2
    /\ issued[p][2].cmd.verb = "status --porcelain"
    /\ issued[p][2].result.success

\* the paths of the lines of `tree` whose first two characters are `prefix`
PathsOf(tree, prefix) ==
    LET kept == SelectSeq(tree, LAMBDA line : SubSeq(line, 1, 2) = prefix)
    IN  [i \in 1..Len(kept) |-> SubSeq(kept[i], 4, Len(kept[i]))]

\* C19: of the status lines of the working tree, the modified bucket holds
\* those with the prefix " M", added those with "A ", deleted those with
\* " D", untracked those with "??"; a line with another prefix is in no
\* bucket, and the request ends with the success response.
C19_BucketsByPrefix ==
    \A p \in StatusRequestsIn :
        StatusListed(p) =>
            /\ loc[p].status_info.changes =
                   [modified |-> PathsOf(repo.porcelain, <<" ","M">>),
                    added |-> PathsOf(repo.porcelain, <<"A"," ">>),
                    deleted |-> PathsOf(repo.porcelain, <<" ","D">>),
                    untracked |-> PathsOf(repo.porcelain, <<"?","?">>)]
            /\ pc[p] = "done" =>
                   /\ IsSuccess(resp[p])
                   /\ resp[p].info.changes = loc[p].status_info.changes

\* the four buckets of a change set are empty
NoChanges(changes) ==
    /\ changes.modified = <<>>
    /\ changes.added = <<>>
    /\ changes.deleted = <<>>
    /\ changes.untracked = <<>>

RecognizedPrefixes == {<<" ","M">>, <<"A"," ">>, <<" ","D">>, <<"?","?">>}

\* C20, as claimed: clean is true exactly when the four buckets are empty, so
\* a working tree whose status lines all have unrecognized prefixes is clean.
C20_AsClaimed ==
    \A p \in StatusRequestsIn :
        StatusListed(p) /\ pc[p] = "done" =>
            /\ resp[p].info.clean = NoChanges(resp[p].info.changes)
            /\ (\A i \in 1..Len(repo.porcelain) :
                    SubSeq(repo.porcelain[i], 1, 2) \notin RecognizedPrefixes)
                   => resp[p].info.clean = TRUE

\* C20, amended: when the porcelain query succeeded, clean is true exactly
\* when the working tree has no status line at all, recognized or not.
C20_CleanIffNoLines ==
    \A p \in StatusRequestsIn :
        StatusListed(p) /\ pc[p] = "done" =>
            /\ IsSuccess(resp[p])
            /\ resp[p].info.clean = (repo.porcelain = <<>>)

C20_Witness ==
    \E p \in StatusRequestsIn :
        /\ StatusListed(p) /\ pc[p] = "done"
        /\ repo.porcelain = <<Line_staged>>
        /\ NoChanges(resp[p].info.changes)
        /\ resp[p].info.clean = FALSE

\* the i-th query of status request p failed
QueryFailed(p, i) == ~issued[p][i].result.success

\* C21: a status request on a repository ends with the success response,
\* and a field whose query failed is in the snapshot with its zero value:
\* the empty string, empty collections, false.
C21_BestEffortZero ==
    \A p \in StatusRequestsIn :
        repo.isRepo /\ pc[p] = "done" =>
            /\ IsSuccess(resp[p]) /\ ~IsError(resp[p])
            /\ Len(issued[p]) = 5
            /\ LET info == resp[p].info
               IN  /\ QueryFailed(p, 1) =>
                          /\ "current_branch" \in DOMAIN info
                          /\ info.current_branch = Empty
                   /\ QueryFailed(p, 2) =>
                          /\ {"changes", "clean"} \subseteq DOMAIN info
                          /\ NoChanges(info.changes)
                          /\ info.clean = FALSE
                   /\ QueryFailed(p, 3) =>
                          /\ "recent_commits" \in DOMAIN info
                          /\ info.recent_commits = <<>>
                   /\ QueryFailed(p, 4) =>
                          /\ "branches" \in DOMAIN info
                          /\ info.branches = <<>>
                   /\ QueryFailed(p, 5) =>
                          /\ "tags" \in DOMAIN info
                          /\ info.tags = <<>>

TagRequestsIn == {p \in Procs : command[p] = "tag"}

\* C22, as claimed: a tag request for "1.2.3" in a repository runs no command
\* and ends with the invalid-tag-format error.
C22_AsClaimed ==
    \A p \in TagRequestsIn :
        repo.isRepo /\ data[p].tag_name = <<"1",".","2",".","3">> =>
            /\ issued[p] = <<>>
            /\ pc[p] = "done" => FailedWith(p, InvalidTagFormat)

\* C22, amended: the leading "v" is optional. A tag request for "1.2.3" in a
\* repository passes the format check: it ends having run the one command
\* that creates the tag "1.2.3", and not with the invalid-tag-format error. A
\* name that does not start with an optional "v" and a numeric triple, as
\* "vx", is turned down with that error before any command.
C22_BareTripleAccepted ==
    \A p \in TagRequestsIn :
        repo.isRepo /\ pc[p] = "done" =>
            /\ data[p].tag_name = <<"1",".","2",".","3">> =>
                   /\ Len(issued[p]) = 1
                   /\ issued[p][1].cmd.verb = "tag -a"
                   /\ issued[p][1].cmd.name = <<"1",".","2",".","3">>
                   /\ ~FailedWith(p, InvalidTagFormat)
                   /\ issued[p][1].result.success =>
                          /\ IsSuccess(resp[p])
                          /\ resp[p].tag_name = <<"1",".","2",".","3">>
            /\ data[p].tag_name = <<"v","x">> =>
                   /\ issued[p] = <<>>
                   /\ FailedWith(p, InvalidTagFormat)

C22_Witness ==
    \E p \in TagRequestsIn :
        /\ pc[p] = "done"
        /\ data[p].tag_name = <<"1",".","2",".","3">>
        /\ IsSuccess(resp[p])
        /\ resp[p].status = "tag_created"
        /\ <<"1",".","2",".","3">> \in repo.tags

\* the requests that were made
Active == {p \in Procs : command[p] # "none"}

\* r is a success response or an error response, and not both
Structured(r) ==
    /\ "none" \notin DOMAIN r
    /\ IsSuccess(r) # IsError(r)

\* the state part of C23
OneResponse ==
    \A p \in Active :
        /\ pc[p] = "done" => Structured(resp[p])
        /\ pc[p] # "done" => resp[p] = NoResp
        /\ \A i \in 1..Len(issued[p]) :
               issued[p][i].result.error = ExceptionText =>
                   ~issued[p][i].result.success

\* C23: every request, an unknown command and a request of no command
\* included, ends, whatever the executor's calls did. It ends with one
\* response, which has a status field or an error field and not both and is
\* not replaced afterwards; a call that raised is a result with success
\* false.
C23_OneStructuredResponse ==
    /\ []OneResponse
    /\ [][\A p \in Active :
              pc[p] = "done" => pc'[p] = "done" /\ resp'[p] = resp[p]]_vars
    /\ <>(\A p \in Active : pc[p] = "done")

C23_Witness ==
    \E p \in Active :
        /\ command[p] = "deploy"
        /\ pc[p] = "done"
        /\ IsError(resp[p])
        /\ resp[p].error.template = "Unknown command: {}"

\* request p has read the tags and has not run the command of its tag
HasRead(p) == TagsListed(p) /\ pc[p] \in {"vb_log", "vb_tag"}

\* C24: nothing holds a request back while the other is between its reading
\* of the tags and its tag; two version_bump requests that have both read
\* the tags before either has run the command of its tag hold the same
\* current version, and with the same bump type the same new version.
C24_NoSerialization ==
    \A p, q \in BumpRequests :
        /\ pc[p] # "done" => MayRun(p)
        /\ p # q /\ HasRead(p) /\ HasRead(q) =>
               /\ loc[p].current_version = loc[q].current_version
               /\ pc[p] = "vb_tag" /\ pc[q] = "vb_tag"
                      /\ loc[p].bump_type = loc[q].bump_type =>
                      loc[p].new_version = loc[q].new_version

C24_Witness ==
    /\ repo.tags = {<<"v","1",".","2",".","3">>}
    /\ \A p \in Procs :
           /\ command[p] = "version_bump"
           /\ HasRead(p)
           /\ pc[p] = "vb_tag"
           /\ loc[p].current_version = <<"v","1",".","2",".","3">>
           /\ loc[p].new_version = <<"v","1",".","2",".","4">>

MergeStrategies == {"merge", "squash", "rebase"}

\* C25: a merge whose strategy is not merge, squash or rebase runs no
\* command and ends with an error.
C25_StrategyValidated ==
    \A p \in MergeRequestsIn :
        data[p].strategy \notin MergeStrategies =>
            /\ issued[p] = <<>>
            /\ pc[p] = "done" => IsError(resp[p]) /\ ~IsSuccess(resp[p])

ValidBumpTypes == {"major", "minor", "patch", "auto"}

\* the calls of request p that create a tag
TagCreations(p) ==
    {i \in 1..Len(issued[p]) : issued[p][i].cmd.verb = "tag -a"}

\* C26: a version_bump whose type is not major, minor, patch or auto runs no
\* command that creates a tag, for the current version or any other, and
\* ends with an error.
C26_BumpTypeValidated ==
    \A p \in BumpRequests :
        data[p].type \notin ValidBumpTypes =>
            /\ TagCreations(p) = {}
            /\ pc[p] = "done" => IsError(resp[p]) /\ ~IsSuccess(resp[p])

\* C27: a version_bump of type major, minor, patch or auto that succeeded
\* reports a new version greater than the previous one, one more at the
\* component of the reported bump type with the components after it zero
\* and those before it kept, and the one command that created a tag in the
\* request created the tag of that name.
C27_StrictIncrease ==
    \A p \in BumpRequests :
        data[p].type \in ValidBumpTypes /\ pc[p] = "done" /\ IsSuccess(resp[p]) =>
            LET old == VersionGroups(resp[p].previous_version)
                b == resp[p].bump_type
            IN  /\ IsCanonicalTag(resp[p].new_version)
                /\ LET new == VersionGroups(resp[p].new_version)
                   IN  /\ VersionLess(old, new)
                       /\ b \in {"major", "minor", "patch"}
                       /\ b = "major" =>
                              /\ new.major = old.major + 1
                              /\ new.minor = 0 /\ new.patch = 0
                       /\ b = "minor" =>
                              /\ new.major = old.major
                              /\ new.minor = old.minor + 1
                              /\ new.patch = 0
                       /\ b = "patch" =>
                              /\ new.major = old.major
                              /\ new.minor = old.minor
                              /\ new.patch = old.patch + 1
                /\ Cardinality(TagCreations(p)) = 1
                /\ \A i \in TagCreations(p) :
                       issued[p][i].cmd.name = resp[p].new_version

C27_Witness ==
    \E p \in BumpRequests :
        /\ data[p].type = "auto"
        /\ pc[p] = "done" /\ IsSuccess(resp[p])
        /\ resp[p].bump_type = "minor"
        /\ resp[p].previous_version = <<"v","1",".","9",".","0">>
        /\ resp[p].new_version = <<"v","1",".","1","0",".","0">>
        /\ issued[p][3].cmd.name = <<"v","1",".","1","0",".","0">>

InvalidVersionFormat == "Invalid current version format: {}"

\* the tag that request p selected as current from its listing: the first
\* listed tag that starts with "v", v0.0.0 when there is none
SelectedTag(p) ==
    LET listed == IF issued[p][1].result.output = Empty THEN <<>>
                  ELSE Split(issued[p][1].result.output, NL)
        named == SelectSeq(listed, LAMBDA t : t # Empty /\ t[1] = "v")
    IN  IF named = <<>> THEN <<"v","0",".","0",".","0">> ELSE named[1]

\* t reads as v{digits}.{digits}.{digits}: "v", a number, ".", a number,
\* ".", a number; what comes after the third number is not read
ParsesAsVersion(t) ==
    \E i, j, k \in 1..Len(t) :
        /\ t[1] = "v"
        /\ 2 < i /\ i + 1 < j /\ j < k
        /\ t[i] = "." /\ t[j] = "."
        /\ \A n \in (2..(i - 1)) \cup ((i + 1)..(j - 1)) \cup ((j + 1)..k) :
               IsDigit(t[n])

\* C28: once the tags are listed, version_bump has ended with the
\* invalid-version-format error exactly when the tag it selected as current,
\* which starts with "v", does not read as v{digits}.{digits}.{digits}; and
\* then the listing is the only command it has run: no tag is created.
C28_InvalidFormatExactly ==
    \A p \in BumpRequests :
        Len(issued[p]) >= 1 =>
            /\ SelectedTag(p)[1] = "v"
            /\ FailedWith(p, InvalidVersionFormat) <=> ~ParsesAsVersion(SelectedTag(p))
            /\ FailedWith(p, InvalidVersionFormat) =>
                   /\ TagCreations(p) = {}
                   /\ Len(issued[p]) = 1
                   /\ resp[p].error.values = <<SelectedTag(p)>>

C28_Witness ==
    \E p \in BumpRequests :
        /\ repo.tags = {<<"v","1",".","2",".","3">>, <<"v","x">>}
        /\ FailedWith(p, InvalidVersionFormat)
        /\ resp[p].error.values = << <<"v","x">> >>
        /\ Len(issued[p]) = 1

\* the commit specs of C29: valid types, with and without a scope
CommitSpecs ==
    [type : ConventionalCommitTypes, scope : {Empty, <<"a">>},
     description : {<<"x">>, <<"a">>}, breaking : BOOLEAN]

\* the subject line of the message built for a commit spec
RenderedSubject(d) ==
    Split(BuildCommitMessage(d.type, d.scope, d.description, Empty, d.breaking),
          NL)[1]

\* the window of request p holds the subject rendered for a spec of D
HoldsSubjectOf(p, D) ==
    \E i \in 1..Len(repo.log) : \E d \in D : repo.log[i] = RenderedSubject(d)

\* the window of request p is not empty and holds only subjects rendered
\* for specs of D
OnlySubjectsOf(p, D) ==
    /\ repo.log # <<>>
    /\ \A i \in 1..Len(repo.log) : \E d \in D : repo.log[i] = RenderedSubject(d)

\* C29: a window that holds the subject rendered for a commit spec with
\* breaking = true is detected as major; a window of subjects rendered for
\* feat specs that are not breaking is detected as minor; a window of
\* subjects rendered for specs that are neither feat nor breaking is
\* detected as patch.
C29_BuilderAndInferrerAgree ==
    \A p \in BumpRequests :
        data[p].type = "auto" /\ LogListed(p) =>
            /\ HoldsSubjectOf(p, {d \in CommitSpecs : d.breaking}) =>
                   loc[p].bump_type = "major"
            /\ OnlySubjectsOf(p, {d \in CommitSpecs :
                                     ~d.breaking /\ d.type = Type_feat}) =>
                   loc[p].bump_type = "minor"
            /\ OnlySubjectsOf(p, {d \in CommitSpecs :
                                     ~d.breaking /\ d.type # Type_feat}) =>
                   loc[p].bump_type = "patch"

\* the merge of request p was given up after its checkout succeeded: the
\* command of the strategy or the commit of the squash failed
AbortedAfterCheckout(p) ==
    /\ Len(issued[p]) >= 2
    /\ issued[p][1].result.success
    /\ \E i \in 2..Len(issued[p]) : ~issued[p][i].result.success

\* C30: a merge given up after its checkout succeeded has ended with an
\* error at the command that failed: that command is the last one, the
\* commands are the checkout of the target, the command of the strategy and
\* at most the commit, with no second checkout, no abort and no reset; the
\* target branch stays checked out.
C30_NoRollback ==
    \A p \in MergeRequestsIn :
        AbortedAfterCheckout(p) =>
            /\ pc[p] = "done" /\ IsError(resp[p]) /\ ~IsSuccess(resp[p])
            /\ ~issued[p][Len(issued[p])].result.success
            /\ \A i \in 1..(Len(issued[p]) - 1) : issued[p][i].result.success
            /\ Len(issued[p]) <= 3
            /\ issued[p][1].cmd = [verb |-> "checkout",
                                   branch |-> data[p].target_branch]
            /\ issued[p][2].cmd.verb \in MergeVerbs
            /\ Len(issued[p]) = 3 => issued[p][3].cmd.verb = "commit"
            /\ repo.head = data[p].target_branch

C30_Witness ==
    \E p \in MergeRequestsIn :
        /\ AbortedAfterCheckout(p)
        /\ data[p].strategy = "squash"
        /\ Len(issued[p]) = 3
        /\ ~issued[p][3].result.success
        /\ pc[p] = "done"
        /\ repo.head = Branch_main

=============================================================================
